---- MODULE Spec2Model ----
(***************************************************************************)
(* State-machine model of the three UI components of the repository:       *)
(*   - ManageAccommodations.tsx (accommodation manager: list, dialog form,  *)
(*     cascading municipality / barangay selection),                        *)
(*   - ReviewForm.tsx          (draft rating / comment, submit),            *)
(*   - ReviewList.tsx          (render of the loaded reviews, delete).      *)
(* Every async handler is split at its awaits: the part before the await is *)
(* one action, the continuation after the awaited response is another, so   *)
(* that other events may run while a call is outstanding.                   *)
(***************************************************************************)
EXTENDS Integers, Sequences, FiniteSets, TLC

(***************************************************************************)
(* Bounds of the model (not program constants).                             *)
(***************************************************************************)
\* barangay fetches that may be outstanding at the same time
MaxFetches == 2
\* accommodation submits / deletes that may be outstanding at the same time
MaxCalls == 1
\* list selects that may be outstanding at the same time
MaxListFetches == 2
\* review inserts / review deletes that may be outstanding at the same time
MaxReviewCalls == 2
\* calls of a refresh callback (onReviewSubmitted, fetchReviews) in a run
MaxRefresh == 2
\* characters of a value typed into the category input
MaxLen == 2

NULL == "NULL"

(***************************************************************************)
(* Strings that the code takes apart (category, amenities) are tuples of    *)
(* one-character strings; all other strings are opaque values.  The order   *)
(* used by localeCompare / order("name") is the position in StrOrder.       *)
(***************************************************************************)
StrOrder ==
  << "", "a1", "a2", "a3", "Bagumbayan", "Bitano", "Casa", "Inn", "Legazpi",
     "Malinao", "Pawa", "Rawis", "Villa" >>

Rank(s) == CHOOSE i \in 1..Len(StrOrder) : StrOrder[i] = s

\* Array.prototype.sort((a, b) => a.name.localeCompare(b.name)): stable
RECURSIVE SortByName(_)
SortByName(s) ==
  IF s = << >> THEN << >>
  ELSE LET rest == SortByName(SubSeq(s, 1, Len(s) - 1))
           x == s[Len(s)]
           \* stable: x goes after the elements that compare equal to it
           RECURSIVE Place(_)
           Place(t) ==
             IF t = << >> THEN << x >>
             ELSE IF Rank(x.name) < Rank(Head(t).name) THEN << x >> \o t
                  ELSE << Head(t) >> \o Place(Tail(t))
       IN Place(rest)

Range(s) == { s[i] : i \in 1..Len(s) }

\* municipalities.find((m) => m.code === code)?.name || ""
RECURSIVE NameOfCode(_, _)
NameOfCode(s, code) ==
  IF s = << >> THEN ""
  ELSE IF Head(s).code = code THEN Head(s).name ELSE NameOfCode(Tail(s), code)

\* municipalities.find((m) => m.name === name)?.code, NULL when none is found
RECURSIVE CodeOfName(_, _)
CodeOfName(s, name) ==
  IF s = << >> THEN NULL
  ELSE IF Head(s).name = name THEN Head(s).code ELSE CodeOfName(Tail(s), name)

RemoveAt(s, i) == SubSeq(s, 1, i - 1) \o SubSeq(s, i + 1, Len(s))

(***************************************************************************)
(* The external geographic reference service.                               *)
(***************************************************************************)
\* GET provinces/050500000/municipalities/
MuniData == << [code |-> "m1", name |-> "Malinao"] >>
\* GET provinces/050500000/cities/
CityData == << [code |-> "k1", name |-> "Legazpi"] >>

\* the barangays the service holds for a parent code, in the service's order
BarangayData(code) ==
  IF code = "m1" THEN << [code |-> "b2", name |-> "Pawa"],
                         [code |-> "b1", name |-> "Bagumbayan"] >>
  ELSE IF code = "k1" THEN << [code |-> "b4", name |-> "Rawis"],
                              [code |-> "b3", name |-> "Bitano"] >>
  ELSE << >>

\* the endpoint family under which a parent code lives
FamilyOf(code) == IF code = "m1" THEN "municipalities" ELSE "cities"

\* What a GET <family>/<code>/barangays/ may answer: the fetch rejects
\* ("neterr"), or a response with its ok flag and its body; a body that is
\* not JSON (the 404 / 5xx page) has json = FALSE.
Responses(family, code) ==
  { [kind |-> "neterr", ok |-> FALSE, json |-> FALSE, body |-> << >>],
    [kind |-> "resp", ok |-> FALSE, json |-> FALSE, body |-> << >>] }
  \cup (IF family = FamilyOf(code)
        THEN { [kind |-> "resp", ok |-> TRUE, json |-> TRUE,
                body |-> BarangayData(code)] }
        ELSE { })

\* (data || []).map((b) => ({ code: b.code, name: b.name })).sort(by name)
ParseRefs(data) ==
  SortByName([i \in 1..Len(data) |-> [code |-> data[i].code, name |-> data[i].name]])

\* the barangay set of a parent code, as the dropdown is meant to show it
BarangaysOf(code) == ParseRefs(BarangayData(code))

\* the barangay set that belongs to a municipality name
BarangaysOfName(name) ==
  LET c == CodeOfName(MuniData \o CityData, name)
  IN IF c = NULL THEN << >> ELSE BarangaysOf(c)

(***************************************************************************)
(* String handling of the category / amenities fields.                      *)
(***************************************************************************)
\* String.prototype.split(","): "" gives [""], "a,,b" gives ["a", "", "b"]
RECURSIVE SplitAcc(_, _, _)
SplitAcc(s, cur, out) ==
  IF s = << >> THEN Append(out, cur)
  ELSE IF Head(s) = "," THEN SplitAcc(Tail(s), << >>, Append(out, cur))
       ELSE SplitAcc(Tail(s), Append(cur, Head(s)), out)

split(s) == SplitAcc(s, << >>, << >>)

\* String.prototype.trim(): whitespace off both ends
RECURSIVE TrimLeft(_)
TrimLeft(s) ==
  IF s # << >> /\ Head(s) = " " THEN TrimLeft(Tail(s)) ELSE s

RECURSIVE TrimRight(_)
TrimRight(s) ==
  IF s # << >> /\ s[Len(s)] = " " THEN TrimRight(SubSeq(s, 1, Len(s) - 1)) ELSE s

trim(s) == TrimRight(TrimLeft(s))

\* split(",") without the map over trim
SplitTrim_NoTrim(s) == split(s)

\* formData.category.split(",").map((c) => c.trim())
SplitTrim(s) == LET t == split(s) IN [i \in 1..Len(t) |-> trim(t[i])]

\* Array.prototype.join(", ")
RECURSIVE join(_)
join(arr) ==
  IF arr = << >> THEN << >>
  ELSE IF Len(arr) = 1 THEN arr[1]
       ELSE arr[1] \o << ",", " " >> \o join(Tail(arr))

(***************************************************************************)
(* Accommodation manager: data.                                             *)
(***************************************************************************)
\* useState initial value of formData, and what resetForm stores
DefaultForm ==
  [ name |-> "", description |-> "", location |-> "", municipality |-> "",
    category |-> << >>, image_url |-> "", contact_number |-> "", email |-> "",
    price_range |-> "", amenities |-> << >>, rating |-> 0 ]

\* Rows of the remote accommodations table. The table is an external
\* collaborator: a select answers with whatever rows it holds at that time.
Rows ==
  { [ id |-> "a1", name |-> "Villa", description |-> "", location |-> "Pawa",
      municipality |-> "Malinao", category |-> << <<"a">>, <<"b">> >>,
      image_url |-> "", contact_number |-> "", email |-> "",
      price_range |-> "", amenities |-> << <<"a">> >>, rating |-> 4 ],
    [ id |-> "a2", name |-> "Casa", description |-> "", location |-> "Rawis",
      municipality |-> "Legazpi", category |-> << >>,
      image_url |-> "", contact_number |-> "", email |-> "",
      price_range |-> "", amenities |-> << >>, rating |-> 0 ],
    [ id |-> "a3", name |-> "Inn", description |-> "", location |-> "",
      municipality |-> "", category |-> << <<"b">> >>,
      image_url |-> "", contact_number |-> "", email |-> "",
      price_range |-> "", amenities |-> << >>, rating |-> 0 ] }

\* the contents the table may have when a select reads it
Tables == { Rows, { r \in Rows : r.id # "a3" } }

\* what the user may type into the name input
NameInputs == { "Inn" }

\* the characters the user may type into the category / amenities inputs:
\* a letter, the separator and whitespace
FieldChars == { "a", ",", " " }

\* every string over FieldChars of at most n characters
RECURSIVE StringsUpTo(_)
StringsUpTo(n) ==
  IF n = 0 THEN { << >> }
  ELSE LET shorter == StringsUpTo(n - 1)
       IN shorter \cup { Append(t, c) : t \in shorter, c \in FieldChars }

\* what the user may type into the category input
FieldInputs == StringsUpTo(MaxLen)

\* what the user may type into the amenities input: nothing, a letter after
\* whitespace, and a doubled separator between a repeated letter with
\* trailing whitespace
AmenitiesInputs ==
  { << >>, << " ", "a" >>, << "a", ",", ",", "a", " " >> }

\* select("*").order("name") over a set of rows
RECURSIVE OrderByName(_)
OrderByName(rows) ==
  IF rows = { } THEN << >>
  ELSE LET first == CHOOSE r \in rows :
                      \A q \in rows : Rank(r.name) < Rank(q.name)
                                      \/ (Rank(r.name) = Rank(q.name)
                                          /\ Rank(r.id) <= Rank(q.id))
       IN << first >> \o OrderByName(rows \ { first })

(***************************************************************************)
(* State.                                                                   *)
(***************************************************************************)
VARIABLES
  \* ManageAccommodations: component state (useState)
  accommodations, isOpen, editingId, municipalities, barangays, formData,
  \* calls in flight: the mount-time municipality load, list selects,
  \* fetchBarangays calls, and submits / deletes awaiting their result
  muniLoad, listFetches, barangayFetches, calls, deletes,
  \* the last notification shown by the manager
  toast,
  \* ReviewForm: component state, the hasUserReviewed prop, inserts in
  \* flight, the last notification, calls made to onReviewSubmitted
  rating, hoveredRating, comment, isSubmitting, hasUserReviewed,
  reviewInserts, formToast, submittedCalls,
  \* ReviewList: the props, deletes in flight, the last notification, calls
  \* made to fetchReviews
  currentUserId, reviews, isLoading, reviewDeletes, listToast, fetchReviewsCalls,
  \* the component whose instance the behaviour follows; the components
  \* share no state, so a behaviour of the page is one behaviour of each
  mounted

managerVars ==
  << accommodations, isOpen, editingId, municipalities, barangays, formData,
     muniLoad, listFetches, barangayFetches, calls, deletes,
     toast >>

formVars ==
  << rating, hoveredRating, comment, isSubmitting, hasUserReviewed,
     reviewInserts, formToast, submittedCalls >>

listVars ==
  << currentUserId, reviews, isLoading, reviewDeletes, listToast,
     fetchReviewsCalls >>

vars == << managerVars, formVars, listVars, mounted >>

\* the state after the component has mounted and its effect has run
ManagerInit ==
  /\ accommodations = << >>
  /\ isOpen = FALSE
  /\ editingId = NULL
  /\ municipalities = << >>
  /\ barangays = << >>
  /\ formData = DefaultForm
  /\ muniLoad = "pending"
  /\ listFetches = 1
  /\ barangayFetches = << >>
  /\ calls = << >>
  /\ deletes = << >>
  /\ toast = ""

(***************************************************************************)
(* Accommodation manager: operations.                                       *)
(***************************************************************************)
\* fetchAccommodations after its await: if (!error && data) setAccommodations
fetchAccommodationsDone(ok, rows) ==
  /\ mounted = "ManageAccommodations"
  /\ listFetches > 0
  /\ listFetches' = listFetches - 1
  /\ accommodations' = IF ok THEN OrderByName(rows) ELSE accommodations
  /\ UNCHANGED << isOpen, editingId, municipalities, barangays, formData,
                  muniLoad, barangayFetches, calls, toast, deletes,
                  formVars, listVars, mounted >>

\* fetchMunicipalities after its awaits; either request may fail
fetchMunicipalitiesDone(muniOk, cityOk) ==
  /\ mounted = "ManageAccommodations"
  /\ muniLoad = "pending"
  /\ muniLoad' = "done"
  /\ IF muniOk /\ cityOk
     THEN /\ municipalities' = ParseRefs(MuniData \o CityData)
          /\ toast' = toast
     ELSE /\ municipalities' = municipalities
          /\ toast' = "Failed to load municipalities and cities"
  /\ UNCHANGED << accommodations, isOpen, editingId, barangays, formData,
                  listFetches, barangayFetches, calls, deletes,
                  formVars, listVars, mounted >>

\* What a response looks like in the log of a call: "ok" / "not ok" is
\* response.ok, "pending" is a request that has no response yet.
Answer(resp) == IF resp.ok THEN "ok" ELSE "not ok"

\* NewFetch that asks the city endpoint first
NewFetch_CityFirst(code) ==
  [ code |-> code, attempt |-> 1,
    reqs |-> << [family |-> "cities", code |-> code, answer |-> "pending"] >> ]

\* the call record of a fetchBarangays(code) that has sent its first request
NewFetch(code) ==
  [ code |-> code, attempt |-> 1,
    reqs |-> << [family |-> "municipalities", code |-> code,
                 answer |-> "pending"] >> ]

\* the call record once its first response has arrived and is not ok: the
\* same code is asked for under cities/
Retried(call, resp) ==
  [ code |-> call.code, attempt |-> 2,
    reqs |-> << [call.reqs[1] EXCEPT !.answer = Answer(resp)],
                [family |-> "cities", code |-> call.code,
                 answer |-> "pending"] >> ]

\* SelectedForm with the location left as it was
SelectedForm_KeepsLocation(fd, munis, code) ==
  [fd EXCEPT !.municipality = NameOfCode(munis, code)]

\* the form handleMunicipalityChange stores
SelectedForm(fd, munis, code) ==
  [fd EXCEPT !.municipality = NameOfCode(munis, code), !.location = ""]

handleMunicipalityChange(code) ==
  /\ mounted = "ManageAccommodations"
  /\ isOpen
  /\ code \in { municipalities[i].code : i \in 1..Len(municipalities) }
  /\ Len(barangayFetches) < MaxFetches
  /\ formData' = SelectedForm(formData, municipalities, code)
  /\ barangays' = << >>
  /\ barangayFetches' = IF code # "" THEN Append(barangayFetches, NewFetch(code))
                        ELSE barangayFetches
  /\ UNCHANGED << accommodations, isOpen, editingId, municipalities,
                  muniLoad, listFetches, calls, toast, deletes,
                  formVars, listVars, mounted >>

\* the request a fetchBarangays call is waiting on
LastReq(call) == call.reqs[Len(call.reqs)]

\* fetchBarangays: the first response is not ok, the city endpoint is asked
fetchBarangaysRetry(i) ==
  /\ mounted = "ManageAccommodations"
  /\ i \in 1..Len(barangayFetches)
  /\ LET call == barangayFetches[i] IN
     /\ call.attempt = 1
     /\ \E resp \in Responses(LastReq(call).family, call.code) :
          /\ resp.kind = "resp"
          /\ ~resp.ok
          /\ barangayFetches' =
               [barangayFetches EXCEPT ![i] = Retried(call, resp)]
  /\ UNCHANGED << accommodations, isOpen, editingId, municipalities, barangays,
                  formData, muniLoad, listFetches, calls, toast, deletes,
                  formVars, listVars, mounted >>

\* the response whose body fetchBarangays parses: an ok first response, or
\* whatever the second request answers
IsFinal(call, resp) ==
  /\ resp.kind = "resp"
  /\ resp.ok \/ call.attempt = 2

\* fetchBarangays: the body parses and the sorted result is stored
fetchBarangaysStore(i) ==
  /\ mounted = "ManageAccommodations"
  /\ i \in 1..Len(barangayFetches)
  /\ LET call == barangayFetches[i] IN
     \E resp \in Responses(LastReq(call).family, call.code) :
       /\ IsFinal(call, resp)
       /\ resp.json
       /\ barangays' = ParseRefs(resp.body)
  /\ barangayFetches' = RemoveAt(barangayFetches, i)
  /\ UNCHANGED << accommodations, isOpen, editingId, municipalities, formData,
                  muniLoad, listFetches, calls, toast, deletes,
                  formVars, listVars, mounted >>

\* fetchBarangays: a fetch rejects or response.json() throws; the catch block
fetchBarangaysCatch(i) ==
  /\ mounted = "ManageAccommodations"
  /\ i \in 1..Len(barangayFetches)
  /\ LET call == barangayFetches[i] IN
     \E resp \in Responses(LastReq(call).family, call.code) :
       \/ resp.kind = "neterr"
       \/ IsFinal(call, resp) /\ ~resp.json
  /\ barangayFetches' = RemoveAt(barangayFetches, i)
  /\ toast' = "Failed to load barangays"
  /\ UNCHANGED << accommodations, isOpen, editingId, municipalities, barangays,
                  formData, muniLoad, listFetches, calls, deletes,
                  formVars, listVars, mounted >>

\* resetForm without its setEditingId(null)
resetForm_KeepsEditId ==
  /\ formData' = DefaultForm
  /\ barangays' = << >>
  /\ editingId' = editingId

\* resetForm: the three setters it calls
resetForm ==
  /\ formData' = DefaultForm
  /\ barangays' = << >>
  /\ editingId' = NULL

\* the Add Accommodation button: onClick = resetForm, and the dialog trigger
\* opens the dialog
addClick ==
  /\ mounted = "ManageAccommodations"
  /\ ~isOpen
  /\ resetForm
  /\ isOpen' = TRUE
  /\ UNCHANGED << accommodations, municipalities, muniLoad,
                  listFetches, barangayFetches, calls, toast, deletes,
                  formVars, listVars, mounted >>

\* the Cancel button: setIsOpen(false); resetForm()
cancelClick ==
  /\ mounted = "ManageAccommodations"
  /\ isOpen
  /\ isOpen' = FALSE
  /\ resetForm
  /\ UNCHANGED << accommodations, municipalities, muniLoad,
                  listFetches, barangayFetches, calls, toast, deletes,
                  formVars, listVars, mounted >>

\* the dialog closes itself (Escape, outside click, its close button):
\* onOpenChange = setIsOpen, and nothing else runs
dialogDismiss ==
  /\ mounted = "ManageAccommodations"
  /\ isOpen
  /\ isOpen' = FALSE
  /\ UNCHANGED << accommodations, editingId, municipalities, barangays,
                  formData, muniLoad, listFetches,
                  barangayFetches, calls, toast, deletes,
                  formVars, listVars, mounted >>

\* typing into the name input
nameChange(v) ==
  /\ mounted = "ManageAccommodations"
  /\ isOpen
  /\ formData' = [formData EXCEPT !.name = v]
  /\ UNCHANGED << accommodations, isOpen, editingId, municipalities, barangays,
                  muniLoad, listFetches, barangayFetches, calls,
                  toast, deletes,
                  formVars, listVars, mounted >>

\* typing into the category input; values are entered between submissions
categoryChange(v) ==
  /\ mounted = "ManageAccommodations"
  /\ isOpen
  /\ calls = << >>
  /\ formData' = [formData EXCEPT !.category = v]
  /\ UNCHANGED << accommodations, isOpen, editingId, municipalities, barangays,
                  muniLoad, listFetches, barangayFetches, calls,
                  toast, deletes,
                  formVars, listVars, mounted >>

\* typing into the amenities input; values are entered between submissions
amenitiesChange(v) ==
  /\ mounted = "ManageAccommodations"
  /\ isOpen
  /\ calls = << >>
  /\ formData' = [formData EXCEPT !.amenities = v]
  /\ UNCHANGED << accommodations, isOpen, editingId, municipalities, barangays,
                  muniLoad, listFetches, barangayFetches, calls,
                  toast, deletes,
                  formVars, listVars, mounted >>

\* the location dropdown, disabled while there are no barangays
locationChange(code) ==
  /\ mounted = "ManageAccommodations"
  /\ isOpen
  /\ Len(barangays) # 0
  /\ code \in { barangays[i].code : i \in 1..Len(barangays) }
  /\ formData' = [formData EXCEPT !.location = NameOfCode(barangays, code)]
  /\ UNCHANGED << accommodations, isOpen, editingId, municipalities, barangays,
                  muniLoad, listFetches, barangayFetches, calls,
                  toast, deletes,
                  formVars, listVars, mounted >>

\* the record handleSubmit sends: the form with the two lists split
AccommodationData(fd) ==
  [fd EXCEPT !.category = SplitTrim(fd.category),
             !.amenities = SplitTrim(fd.amenities)]

\* the call handleSubmit issues: update(...).eq("id", editingId) when
\* editingId is set, insert([...]) otherwise
SubmitCall(fd, id) ==
  [ op |-> IF id # NULL /\ id # "" THEN "update" ELSE "insert",
    id |-> id,
    data |-> AccommodationData(fd) ]

\* handleSubmit up to its await (the name input is required)
handleSubmit ==
  /\ mounted = "ManageAccommodations"
  /\ isOpen
  /\ formData.name # ""
  /\ Len(calls) < MaxCalls
  /\ calls' = Append(calls, SubmitCall(formData, editingId))
  /\ UNCHANGED << accommodations, isOpen, editingId, municipalities, barangays,
                  formData, muniLoad, listFetches,
                  barangayFetches, deletes, toast,
                  formVars, listVars, mounted >>

\* handleSubmitFailed that also closes the dialog and clears the form
handleSubmitFailed_Resets(i) ==
  /\ mounted = "ManageAccommodations"
  /\ i \in 1..Len(calls)
  /\ calls' = RemoveAt(calls, i)
  /\ toast' = IF calls[i].op = "update" THEN "Failed to update accommodation"
              ELSE "Failed to add accommodation"
  /\ isOpen' = FALSE
  /\ formData' = DefaultForm
  /\ barangays' = << >>
  /\ editingId' = NULL
  /\ UNCHANGED << accommodations, municipalities, muniLoad, listFetches,
                  barangayFetches, deletes, formVars, listVars, mounted >>

\* handleSubmit after its await, error branch
handleSubmitFailed(i) ==
  /\ mounted = "ManageAccommodations"
  /\ i \in 1..Len(calls)
  /\ calls' = RemoveAt(calls, i)
  /\ toast' = IF calls[i].op = "update" THEN "Failed to update accommodation"
              ELSE "Failed to add accommodation"
  /\ UNCHANGED << accommodations, isOpen, editingId, municipalities, barangays,
                  formData, muniLoad, listFetches,
                  barangayFetches, deletes,
                  formVars, listVars, mounted >>

\* handleSubmit after its await, success branch:
\* setIsOpen(false); resetForm(); fetchAccommodations()
handleSubmitSucceeded(i) ==
  /\ mounted = "ManageAccommodations"
  /\ i \in 1..Len(calls)
  /\ listFetches < MaxListFetches
  /\ calls' = RemoveAt(calls, i)
  /\ toast' = IF calls[i].op = "update" THEN "Accommodation updated successfully"
              ELSE "Accommodation added successfully"
  /\ isOpen' = FALSE
  /\ resetForm
  /\ listFetches' = listFetches + 1
  /\ UNCHANGED << accommodations, municipalities, muniLoad, barangayFetches,
                  deletes,
                  formVars, listVars, mounted >>

\* the form handleEdit stores for a listed record
EditForm(acc) ==
  [ name |-> acc.name, description |-> acc.description,
    location |-> acc.location, municipality |-> acc.municipality,
    category |-> join(acc.category), image_url |-> acc.image_url,
    contact_number |-> acc.contact_number, email |-> acc.email,
    price_range |-> acc.price_range, amenities |-> join(acc.amenities),
    rating |-> acc.rating ]

\* the fetchBarangays calls handleEdit starts: one, if the record has a
\* municipality and its name is found in the loaded municipalities
EditFetches(acc, munis) ==
  IF acc.municipality # "" /\ CodeOfName(munis, acc.municipality) # NULL
  THEN << NewFetch(CodeOfName(munis, acc.municipality)) >>
  ELSE << >>

\* the pencil button of a listed record; the list behind the open dialog
\* takes no clicks (the dialog is modal), as for Add and the trash button
handleEdit(acc) ==
  /\ mounted = "ManageAccommodations"
  /\ ~isOpen
  /\ acc \in Range(accommodations)
  /\ Len(barangayFetches) < MaxFetches
  /\ formData' = EditForm(acc)
  /\ editingId' = acc.id
  /\ isOpen' = TRUE
  /\ barangayFetches' = barangayFetches \o EditFetches(acc, municipalities)
  /\ UNCHANGED << accommodations, municipalities, barangays, muniLoad, listFetches, calls, deletes, toast,
                  formVars, listVars, mounted >>

\* handleDelete, confirm() answered with Cancel
handleDeleteRejected(id) ==
  /\ mounted = "ManageAccommodations"
  /\ ~isOpen
  /\ id \in { accommodations[i].id : i \in 1..Len(accommodations) }
  /\ UNCHANGED vars

\* handleDelete up to its await, confirm() answered with OK
handleDelete(id) ==
  /\ mounted = "ManageAccommodations"
  /\ ~isOpen
  /\ id \in { accommodations[i].id : i \in 1..Len(accommodations) }
  /\ Len(deletes) < MaxCalls
  /\ deletes' = Append(deletes, id)
  /\ UNCHANGED << accommodations, isOpen, editingId, municipalities, barangays,
                  formData, muniLoad, listFetches,
                  barangayFetches, calls, toast,
                  formVars, listVars, mounted >>

\* handleDelete after its await, error branch
handleDeleteFailed(i) ==
  /\ mounted = "ManageAccommodations"
  /\ i \in 1..Len(deletes)
  /\ deletes' = RemoveAt(deletes, i)
  /\ toast' = "Failed to delete accommodation"
  /\ UNCHANGED << accommodations, isOpen, editingId, municipalities, barangays,
                  formData, muniLoad, listFetches,
                  barangayFetches, calls,
                  formVars, listVars, mounted >>

\* handleDelete after its await, success branch
handleDeleteSucceeded(i) ==
  /\ mounted = "ManageAccommodations"
  /\ i \in 1..Len(deletes)
  /\ listFetches < MaxListFetches
  /\ deletes' = RemoveAt(deletes, i)
  /\ toast' = "Accommodation deleted successfully"
  /\ listFetches' = listFetches + 1
  /\ UNCHANGED << accommodations, isOpen, editingId, municipalities, barangays,
                  formData, muniLoad, barangayFetches, calls,
                  formVars, listVars, mounted >>

(***************************************************************************)
(* Review form.                                                             *)
(***************************************************************************)
\* what the user may type into the comment box
CommentInputs == { << " " >>, << "o", "k", " " >> }

\* comment.trim() || null
CommentValue(c) ==
  [ isNull |-> trim(c) = << >>, text |-> trim(c) ]

FormInit ==
  /\ rating = 0
  /\ hoveredRating = 0
  /\ comment = << >>
  /\ isSubmitting = FALSE
  /\ hasUserReviewed = FALSE
  /\ reviewInserts = << >>
  /\ formToast = ""
  /\ submittedCalls = 0

\* a star button: onClick, onMouseEnter, onMouseLeave
starClick(star) ==
  /\ mounted = "ReviewForm"
  /\ rating' = star
  /\ UNCHANGED << hoveredRating, comment, isSubmitting, hasUserReviewed,
                  reviewInserts, formToast, submittedCalls,
                  managerVars, listVars, mounted >>

starEnter(star) ==
  /\ mounted = "ReviewForm"
  /\ hoveredRating' = star
  /\ UNCHANGED << rating, comment, isSubmitting, hasUserReviewed,
                  reviewInserts, formToast, submittedCalls,
                  managerVars, listVars, mounted >>

starLeave ==
  /\ mounted = "ReviewForm"
  /\ hoveredRating' = 0
  /\ UNCHANGED << rating, comment, isSubmitting, hasUserReviewed,
                  reviewInserts, formToast, submittedCalls,
                  managerVars, listVars, mounted >>

\* the comment box
commentChange(v) ==
  /\ mounted = "ReviewForm"
  /\ comment' = v
  /\ UNCHANGED << rating, hoveredRating, isSubmitting, hasUserReviewed,
                  reviewInserts, formToast, submittedCalls,
                  managerVars, listVars, mounted >>

\* the parent renders the form with a new hasUserReviewed
hasUserReviewedChange(b) ==
  /\ mounted = "ReviewForm"
  /\ hasUserReviewed' = b
  /\ UNCHANGED << rating, hoveredRating, comment, isSubmitting,
                  reviewInserts, formToast, submittedCalls,
                  managerVars, listVars, mounted >>

\* SubmitDisabled without the isSubmitting test
SubmitDisabled_NoFlag == rating = 0 \/ hasUserReviewed

\* the disabled attribute of the submit button
SubmitDisabled == isSubmitting \/ rating = 0 \/ hasUserReviewed

\* ReviewForm handleSubmit without the rating === 0 check
ReviewForm_handleSubmit_NoCheck ==
  /\ mounted = "ReviewForm"
  /\ Len(reviewInserts) < MaxReviewCalls
  /\ isSubmitting' = TRUE
  /\ reviewInserts' =
       Append(reviewInserts,
              [rating |-> rating, comment |-> CommentValue(comment)])
  /\ UNCHANGED << rating, hoveredRating, comment, hasUserReviewed, formToast,
                  submittedCalls, managerVars, listVars, mounted >>

\* ReviewForm handleSubmit up to its await (or to its early return)
ReviewForm_handleSubmit ==
  /\ mounted = "ReviewForm"
  /\ IF rating = 0
     THEN /\ formToast' = "Please select a rating"
          /\ UNCHANGED << isSubmitting, reviewInserts >>
     ELSE /\ Len(reviewInserts) < MaxReviewCalls
          /\ isSubmitting' = TRUE
          /\ reviewInserts' =
               Append(reviewInserts,
                      [rating |-> rating, comment |-> CommentValue(comment)])
          /\ formToast' = formToast
  /\ UNCHANGED << rating, hoveredRating, comment, hasUserReviewed,
                  submittedCalls, managerVars, listVars, mounted >>

\* a click on the submit button: nothing happens while it is disabled
submitClick ==
  /\ ~SubmitDisabled
  /\ ReviewForm_handleSubmit

\* a submit event of the form that does not come from the button
\* (form.requestSubmit(), a script, a test): onSubmit = handleSubmit
submitEvent == ReviewForm_handleSubmit

\* ReviewForm handleSubmit after its await, error branch
ReviewForm_handleSubmitFailed(i) ==
  /\ mounted = "ReviewForm"
  /\ i \in 1..Len(reviewInserts)
  /\ reviewInserts' = RemoveAt(reviewInserts, i)
  /\ formToast' = "Failed to submit review"
  /\ isSubmitting' = FALSE
  /\ UNCHANGED << rating, hoveredRating, comment, hasUserReviewed,
                  submittedCalls, managerVars, listVars, mounted >>

\* ReviewForm handleSubmit after its await, success branch
ReviewForm_handleSubmitSucceeded(i) ==
  /\ mounted = "ReviewForm"
  /\ i \in 1..Len(reviewInserts)
  /\ submittedCalls < MaxRefresh
  /\ reviewInserts' = RemoveAt(reviewInserts, i)
  /\ formToast' = "Review submitted successfully"
  /\ rating' = 0
  /\ comment' = << >>
  /\ submittedCalls' = submittedCalls + 1
  /\ isSubmitting' = FALSE
  /\ UNCHANGED << hoveredRating, hasUserReviewed, managerVars, listVars,
                  mounted >>

(***************************************************************************)
(* Review list.                                                             *)
(***************************************************************************)
\* the review collections the parent may pass
ReviewData ==
  << [id |-> "r1", rating |-> 5, user_id |-> "u1"],
     [id |-> "r2", rating |-> 4, user_id |-> "u2"],
     [id |-> "r3", rating |-> 3, user_id |-> "u1"] >>

ReviewLists == { SubSeq(ReviewData, 1, n) : n \in 0..Len(ReviewData) }

\* a larger table of reviews, and the collections the parent may load from
\* it: every selection of its rows, in the order of the table
RatedData ==
  ReviewData \o << [id |-> "r4", rating |-> 5, user_id |-> "u2"] >>

RECURSIVE Selections(_)
Selections(rs) ==
  IF rs = << >> THEN { << >> }
  ELSE LET rest == Selections(Tail(rs))
       IN rest \cup { << Head(rs) >> \o t : t \in rest }

RatedLists == Selections(RatedData)

\* the viewer identities the parent may pass
Viewers == { NULL, "u1", "u2" }

ListInit ==
  /\ currentUserId = NULL
  /\ reviews = << >>
  /\ isLoading = TRUE
  /\ reviewDeletes = << >>
  /\ listToast = ""
  /\ fetchReviewsCalls = 0

\* the parent renders the list with new props
listProps(viewer, rs, loading) ==
  /\ mounted = "ReviewList"
  /\ currentUserId' = viewer
  /\ reviews' = rs
  /\ isLoading' = loading
  /\ UNCHANGED << reviewDeletes, listToast, fetchReviewsCalls,
                  managerVars, formVars, mounted >>

\* which of its three renders the list returns
Shown ==
  IF isLoading THEN "loading"
  ELSE IF Len(reviews) = 0 THEN "empty" ELSE "reviews"

\* reviews.reduce((sum, r) => sum + r.rating, 0)
RECURSIVE SumRatings(_)
SumRatings(rs) ==
  IF rs = << >> THEN 0 ELSE Head(rs).rating + SumRatings(Tail(rs))

Digits == << "0", "1", "2", "3", "4", "5", "6", "7", "8", "9" >>

\* the decimal digits of a natural number, as Number.prototype.toFixed and
\* the text of {reviews.length} write them
RECURSIVE DecStr(_)
DecStr(n) ==
  IF n < 10 THEN << Digits[n + 1] >>
  ELSE DecStr(n \div 10) \o << Digits[(n % 10) + 1] >>

\* toFixed(1) that cuts the digits after the first decimal off
toFixed1_Truncates(num, den) ==
  LET n == (10 * num) \div den
  IN DecStr(n \div 10) \o << "." >> \o DecStr(n % 10)

\* (num / den).toFixed(1) for num >= 0: the n for which n / 10 is nearest to
\* the quotient, the larger n if two are equally near. (For the collection
\* sizes used here the quotient in double precision is either exact or far
\* from the middle between two tenths.)
toFixed1(num, den) ==
  LET n == (20 * num + den) \div (2 * den)
  IN DecStr(n \div 10) \o << "." >> \o DecStr(n % 10)

\* what the component returns: the loader alone while isLoading, else the
\* empty-state paragraph alone if there are no reviews, else the summary
\* (averageRating.toFixed(1), the count and its noun) and one card per review
Render ==
  IF isLoading
  THEN [ loader |-> TRUE, emptyMessage |-> FALSE, summary |-> << >>,
         cards |-> << >> ]
  ELSE IF Len(reviews) = 0
       THEN [ loader |-> FALSE, emptyMessage |-> TRUE, summary |-> << >>,
              cards |-> << >> ]
       ELSE [ loader |-> FALSE, emptyMessage |-> FALSE,
              summary |->
                << [ average |-> toFixed1(SumRatings(reviews), Len(reviews)),
                     count |-> DecStr(Len(reviews)),
                     noun |-> IF Len(reviews) = 1 THEN "review"
                              ELSE "reviews" ] >>,
              cards |-> [ i \in 1..Len(reviews) |-> reviews[i].id ] ]

\* DeleteOffered without the ownership test
DeleteOffered_Anyone(r) ==
  /\ Shown = "reviews"
  /\ r \in Range(reviews)

\* the Delete button is rendered in the card of review r
DeleteOffered(r) ==
  /\ Shown = "reviews"
  /\ r \in Range(reviews)
  /\ currentUserId = r.user_id

\* a click on the Delete button of review r: handleDeleteReview(r.id) up to
\* its await
handleDeleteReview(r) ==
  /\ mounted = "ReviewList"
  /\ DeleteOffered(r)
  /\ Len(reviewDeletes) < MaxReviewCalls
  /\ reviewDeletes' = Append(reviewDeletes, r.id)
  /\ UNCHANGED << currentUserId, reviews, isLoading, listToast,
                  fetchReviewsCalls, managerVars, formVars, mounted >>

\* handleDeleteReview after its await, error branch
handleDeleteReviewFailed(i) ==
  /\ mounted = "ReviewList"
  /\ i \in 1..Len(reviewDeletes)
  /\ reviewDeletes' = RemoveAt(reviewDeletes, i)
  /\ listToast' = "Failed to delete review"
  /\ UNCHANGED << currentUserId, reviews, isLoading, fetchReviewsCalls,
                  managerVars, formVars, mounted >>

\* handleDeleteReview after its await, success branch
handleDeleteReviewSucceeded(i) ==
  /\ mounted = "ReviewList"
  /\ i \in 1..Len(reviewDeletes)
  /\ fetchReviewsCalls < MaxRefresh
  /\ reviewDeletes' = RemoveAt(reviewDeletes, i)
  /\ listToast' = "Review deleted successfully"
  /\ fetchReviewsCalls' = fetchReviewsCalls + 1
  /\ UNCHANGED << currentUserId, reviews, isLoading, managerVars, formVars,
                  mounted >>

(***************************************************************************)
(* Specifications.                                                          *)
(***************************************************************************)
Components == { "ManageAccommodations", "ReviewForm", "ReviewList" }

Init ==
  /\ mounted \in Components
  /\ ManagerInit
  /\ FormInit
  /\ ListInit

\* the cascading municipality / barangay selection and everything that
\* resets or hydrates it
GeoNext ==
  \/ \E ok \in BOOLEAN, rows \in Tables : fetchAccommodationsDone(ok, rows)
  \/ \E m, c \in BOOLEAN : fetchMunicipalitiesDone(m, c)
  \/ \E code \in { "m1", "k1" } : handleMunicipalityChange(code)
  \/ \E i \in 1..MaxFetches : fetchBarangaysRetry(i)
  \/ \E i \in 1..MaxFetches : fetchBarangaysStore(i)
  \/ \E i \in 1..MaxFetches : fetchBarangaysCatch(i)
  \/ addClick
  \/ cancelClick
  \/ dialogDismiss
  \/ \E code \in { "b1", "b2", "b3", "b4" } : locationChange(code)
  \/ \E acc \in Range(accommodations) : handleEdit(acc)

\* create / update / delete of accommodations, while the municipality
\* reference load is still outstanding
CrudNext ==
  \/ \E ok \in BOOLEAN, rows \in Tables : fetchAccommodationsDone(ok, rows)
  \/ addClick
  \/ cancelClick
  \/ dialogDismiss
  \/ \E v \in NameInputs : nameChange(v)
  \/ handleSubmit
  \/ \E i \in 1..MaxCalls : handleSubmitFailed(i)
  \/ \E i \in 1..MaxCalls : handleSubmitSucceeded(i)
  \/ \E acc \in Range(accommodations) : handleEdit(acc)
  \/ \E id \in { r.id : r \in Rows } : handleDeleteRejected(id)
  \/ \E id \in { r.id : r \in Rows } : handleDelete(id)
  \/ \E i \in 1..MaxCalls : handleDeleteFailed(i)
  \/ \E i \in 1..MaxCalls : handleDeleteSucceeded(i)

\* filling in the category / amenities inputs of a new or an edited record
\* and submitting it
FieldsNext ==
  \/ \E ok \in BOOLEAN, rows \in Tables : fetchAccommodationsDone(ok, rows)
  \/ addClick
  \/ \E v \in NameInputs : nameChange(v)
  \/ \E v \in FieldInputs : categoryChange(v)
  \/ \E v \in AmenitiesInputs : amenitiesChange(v)
  \/ handleSubmit
  \/ \E i \in 1..MaxCalls : handleSubmitFailed(i)
  \/ \E i \in 1..MaxCalls : handleSubmitSucceeded(i)
  \/ \E acc \in Range(accommodations) : handleEdit(acc)

\* the hover preview of the star control
FormHover ==
  \/ \E star \in 1..5 : starEnter(star)
  \/ starLeave

\* the draft, the prop and the continuations of handleSubmit
FormEdits ==
  \/ \E star \in 1..5 : starClick(star)
  \/ \E v \in CommentInputs : commentChange(v)
  \/ \E b \in BOOLEAN : hasUserReviewedChange(b)
  \/ \E i \in 1..MaxReviewCalls : ReviewForm_handleSubmitFailed(i)
  \/ \E i \in 1..MaxReviewCalls : ReviewForm_handleSubmitSucceeded(i)

\* the review form driven through its rendered controls
FormNext == FormHover \/ FormEdits \/ submitClick

\* the review form when submit events may also arrive past the button
\* (the hover preview left aside: no handler reads it)
FormEventNext == FormEdits \/ submitEvent

ListNext ==
  \/ \E v \in Viewers, rs \in ReviewLists, l \in BOOLEAN : listProps(v, rs, l)
  \/ \E r \in Range(ReviewData) : handleDeleteReview(r)
  \/ \E i \in 1..MaxReviewCalls : handleDeleteReviewFailed(i)
  \/ \E i \in 1..MaxReviewCalls : handleDeleteReviewSucceeded(i)

SpecGeo == Init /\ [][GeoNext]_vars

SpecCrud == Init /\ [][CrudNext]_vars

SpecFields == Init /\ [][FieldsNext]_vars

SpecForm == Init /\ [][FormNext]_vars

SpecFormEvent == Init /\ [][FormEventNext]_vars

\* the review list over the larger choice of loaded collections
RenderNext ==
  \/ \E v \in Viewers, rs \in RatedLists, l \in BOOLEAN : listProps(v, rs, l)
  \/ \E r \in Range(RatedData) : handleDeleteReview(r)
  \/ \E i \in 1..MaxReviewCalls : handleDeleteReviewFailed(i)
  \/ \E i \in 1..MaxReviewCalls : handleDeleteReviewSucceeded(i)

SpecList == Init /\ [][ListNext]_vars

SpecRender == Init /\ [][RenderNext]_vars

\* every handler that writes to the remote store, in each of the components
WritesNext == CrudNext \/ FormNext \/ ListNext

SpecWrites == Init /\ [][WritesNext]_vars

(***************************************************************************)
(* Properties.                                                              *)
(***************************************************************************)
\* the fields of the form other than municipality and location
OtherFields ==
  { "name", "description", "category", "image_url", "contact_number", "email",
    "price_range", "amenities", "rating" }

\* the name the reference service gives to a municipality / city code
RefName(code) == NameOfCode(MuniData \o CityData, code)

\* C1: in every reachable state a non-empty barangay set is the barangay set
\* of the municipality held in the form's municipality field.
C1_BarangaysScoped ==
  Len(barangays) # 0 => barangays = BarangaysOfName(formData.municipality)

\* C2: a municipality selection leaves the location empty, the barangay set
\* empty, the municipality field at the name of the selected code and every
\* other field as it was; and an empty barangay set becomes non-empty only in
\* a step in which a barangay fetch resolves and stores its result.
C2_SelectClears ==
  [][ /\ \A code \in { "m1", "k1" } :
           handleMunicipalityChange(code) =>
             /\ formData'.location = ""
             /\ formData'.municipality = RefName(code)
             /\ barangays' = << >>
             /\ \A f \in OtherFields : formData'[f] = formData[f]
      /\ (barangays = << >> /\ barangays' # << >>) =>
           Len(barangayFetches') < Len(barangayFetches)
    ]_vars

\* C2 witness: record a1 (location Pawa) is being edited and its
\* municipality has just been changed to Legazpi
C2_Witness ==
  /\ isOpen
  /\ editingId = "a1"
  /\ formData.name = "Villa"
  /\ formData.municipality = "Legazpi"
  /\ formData.location = ""
  /\ barangays = << >>
  /\ Len(barangayFetches) > 0

\* the notifications of a failed write
ManagerFailures ==
  { "Failed to update accommodation", "Failed to add accommodation",
    "Failed to delete accommodation" }

\* C3: a step in which a write resolves with a failure (the call leaves the
\* calls in flight and the failure notification is what is shown) changes
\* nothing else: the dialog, the form, the edit id and the list stay, no list
\* select is issued; the review draft stays, the submitting flag is back at
\* FALSE, its value before the submit, and no refresh callback is invoked.
C3_FailureKeepsState ==
  [][ /\ ( /\ Len(calls') < Len(calls) \/ Len(deletes') < Len(deletes)
           /\ toast' \in ManagerFailures )
         => UNCHANGED << accommodations, isOpen, editingId, municipalities,
                         barangays, formData, listFetches >>
      /\ ( /\ Len(reviewInserts') < Len(reviewInserts)
           /\ formToast' = "Failed to submit review" )
         => /\ UNCHANGED << rating, hoveredRating, comment, submittedCalls >>
            /\ isSubmitting' = FALSE
      /\ ( /\ Len(reviewDeletes') < Len(reviewDeletes)
           /\ listToast' = "Failed to delete review" )
         => UNCHANGED << currentUserId, reviews, isLoading, fetchReviewsCalls >>
      \* and a write that resolves shows one of its two notifications
      /\ Len(calls') < Len(calls) =>
           toast' \in ManagerFailures
                      \cup { "Accommodation updated successfully",
                             "Accommodation added successfully" }
    ]_vars

\* C3 witness: an update of record a1 has failed while the name was being
\* edited; the dialog is still open on that record with the input kept
C3_Witness ==
  /\ toast = "Failed to update accommodation"
  /\ calls = << >>
  /\ isOpen
  /\ editingId = "a1"
  /\ formData = [EditForm(CHOOSE r \in Rows : r.id = "a1") EXCEPT !.name = "Inn"]

\* C4: when the dialog is open on a listed record whose municipality is set,
\* the form is as edit(record) hydrated it and no barangay fetch is still in
\* flight, the barangay set is the one of the record's municipality.
C4_EditPrepopulates ==
  \A acc \in Range(accommodations) :
    ( /\ isOpen
      /\ editingId = acc.id
      /\ formData = EditForm(acc)
      /\ acc.municipality # ""
      /\ barangayFetches = << >> )
    => barangays = BarangaysOfName(acc.municipality)

\* C5: at most one review insert is in flight, and the submitting flag is
\* TRUE exactly while one is.
C5_SingleInsert ==
  /\ Len(reviewInserts) <= 1
  /\ isSubmitting <=> Len(reviewInserts) = 1

\* C5 witness: an insert has failed, the flag went back to FALSE, and a new
\* insert is in flight
C5_Witness ==
  /\ formToast = "Failed to submit review"
  /\ isSubmitting
  /\ Len(reviewInserts) = 1

\* C6: from a state whose draft rating is 0 no step issues an insert, and a
\* run of the submit handler there shows the validation message and leaves
\* the rating, the comment, the submitting flag and the inserts in flight.
C6_ZeroRatingRejected ==
  [][ rating = 0 =>
        /\ Len(reviewInserts') <= Len(reviewInserts)
        /\ submitEvent =>
             /\ formToast' = "Please select a rating"
             /\ UNCHANGED << rating, comment, isSubmitting, reviewInserts,
                             submittedCalls >>
    ]_vars

\* C6 witness: after a successful submit has put the rating back to 0, with
\* a comment typed again, the handler ran and showed the validation message
C6_Witness ==
  /\ submittedCalls >= 1
  /\ rating = 0
  /\ comment # << >>
  /\ formToast = "Please select a rating"
  /\ reviewInserts = << >>

\* C7: the step in which a submit resolves successfully closes the dialog,
\* puts the form at its defaults, ends edit mode and issues a list select;
\* the call a submit issues is an update of the record editingId names when
\* editingId is set and an insert otherwise; Cancel and Add leave editingId
\* absent and only edit(record) sets it, so that a submit made after them
\* is an insert.
C7_SubmitSuccess ==
  [][ /\ ( /\ Len(calls') < Len(calls)
           /\ toast' \in { "Accommodation updated successfully",
                           "Accommodation added successfully" } )
         => /\ isOpen' = FALSE
            /\ formData' = DefaultForm
            /\ editingId' = NULL
            /\ listFetches' = listFetches + 1
      /\ Len(calls') > Len(calls)
         => LET call == calls'[Len(calls')] IN
            /\ editingId # NULL => call.op = "update" /\ call.id = editingId
            /\ editingId = NULL => call.op = "insert"
            /\ call.data.name = formData.name
      /\ (cancelClick \/ addClick) => editingId' = NULL
      /\ (editingId' # NULL /\ editingId' # editingId)
         => \E acc \in Range(accommodations) :
              handleEdit(acc) /\ editingId' = acc.id
    ]_vars

\* C7 witness: an update has succeeded; the dialog is closed, the form is at
\* its defaults, no edit id is left and a list select is in flight
C7_Witness ==
  /\ toast = "Accommodation updated successfully"
  /\ ~isOpen
  /\ formData = DefaultForm
  /\ editingId = NULL
  /\ listFetches >= 1

\* C8: every fetchBarangays call in flight has asked the municipality
\* endpoint first, has asked the city endpoint only after a first response
\* that was not ok, with the same code, and has made at most two requests;
\* the set a call stores is the answer of the endpoint it asked last.
C8_FallbackOrder ==
  /\ [] ( \A i \in 1..Len(barangayFetches) :
            LET call == barangayFetches[i] IN
            /\ Len(call.reqs) \in { 1, 2 }
            /\ call.reqs[1].family = "municipalities"
            /\ call.reqs[1].code = call.code
            /\ Len(call.reqs) = 2 =>
                 /\ call.reqs[1].answer = "not ok"
                 /\ call.reqs[2].family = "cities"
                 /\ call.reqs[2].code = call.code )
  /\ [][ \A i \in 1..Len(barangayFetches) :
           fetchBarangaysStore(i) =>
             LET call == barangayFetches[i] IN
             /\ LastReq(call).family = FamilyOf(call.code)
             /\ barangays' = BarangaysOf(call.code)
       ]_vars

\* C8 witness: a call for the city code has had its first response and is
\* waiting on the city endpoint
C8_Witness ==
  \E i \in 1..Len(barangayFetches) :
    /\ barangayFetches[i].code = "k1"
    /\ Len(barangayFetches[i].reqs) = 2

\* C9: the step in which a fetchBarangays call fails (a fetch rejects or the
\* body does not parse) shows the notification and leaves the barangay set
\* empty.
C9_FailureLeavesEmpty ==
  [][ ( /\ Len(barangayFetches') < Len(barangayFetches)
        /\ \E i \in 1..Len(barangayFetches) : fetchBarangaysCatch(i) )
      => /\ toast' = "Failed to load barangays"
         /\ barangays' = << >>
    ]_vars

\* C10: while the reviews are rendered, Delete is offered on a review
\* exactly when the viewer is its author, and every delete that is issued
\* is for a loaded review whose user_id is the current viewer.
C10_DeleteOnlyOwn ==
  /\ [] ( Shown = "reviews" =>
            \A r \in Range(reviews) :
              DeleteOffered(r) <=> currentUserId = r.user_id )
  /\ [][ Len(reviewDeletes') > Len(reviewDeletes) =>
           \E r \in Range(reviews) :
             /\ r.id = reviewDeletes'[Len(reviewDeletes')]
             /\ r.user_id = currentUserId
       ]_vars

\* C10 witness: viewer u2 sees three reviews, one of them their own, and its
\* delete is in flight
C10_Witness ==
  /\ Shown = "reviews"
  /\ Len(reviews) = 3
  /\ currentUserId = "u2"
  /\ reviewDeletes = << "r2" >>

\* the positions of the separators of a field value, with the position
\* before its first and after its last character
Cuts(s) == { 0, Len(s) + 1 } \cup { i \in 1..Len(s) : s[i] = "," }

\* the k-th piece of a field value: the characters strictly between its
\* k-th and (k+1)-th cut
Piece(s, k) ==
  LET lo == CHOOSE c \in Cuts(s) : Cardinality({ d \in Cuts(s) : d < c }) = k - 1
      hi == CHOOSE c \in Cuts(s) : Cardinality({ d \in Cuts(s) : d < c }) = k
  IN SubSeq(s, lo + 1, hi - 1)

\* a piece without the whitespace before its first and after its last
\* non-whitespace character
Stripped(t) ==
  LET solid == { i \in 1..Len(t) : t[i] # " " }
  IN IF solid = { } THEN << >>
     ELSE SubSeq(t, CHOOSE i \in solid : \A j \in solid : i <= j,
                    CHOOSE i \in solid : \A j \in solid : i >= j)

\* the tokens of a field value: one per piece, in order, empty ones included
Tokens(s) == [ k \in 1..(Cardinality(Cuts(s)) - 1) |-> Stripped(Piece(s, k)) ]

\* C11: every step in which handleSubmit issues its call (an insert for a new
\* record, an update for an edited one) sends, as category and as amenities,
\* the tokens of the value the field holds at that moment: the value cut at
\* its commas, each piece stripped of surrounding whitespace, in the original
\* order, repeated and empty tokens kept (so one more token than commas).
C11_SplitTrimSent ==
  [][ Len(calls') > Len(calls) =>
        LET c == calls'[Len(calls')]
        IN /\ c.op = (IF editingId # NULL THEN "update" ELSE "insert")
           /\ c.data.category = Tokens(formData.category)
           /\ c.data.amenities = Tokens(formData.amenities)
           /\ Len(c.data.category) = Cardinality(Cuts(formData.category)) - 1 ]_vars

\* an update is outstanding whose category was typed as two commas (three
\* empty tokens) and whose amenities as a letter after whitespace
C11_Witness ==
  /\ Len(calls) = 1
  /\ calls[1].op = "update"
  /\ formData.category = << ",", "," >>
  /\ calls[1].data.category = << << >>, << >>, << >> >>
  /\ formData.amenities = << " ", "a" >>
  /\ calls[1].data.amenities = << << "a" >> >>

\* the number a text of decimal digits stands for
RECURSIVE DigitsValue(_)
DigitsValue(t) ==
  IF t = << >> THEN 0
  ELSE 10 * DigitsValue(SubSeq(t, 1, Len(t) - 1))
       + (CHOOSE d \in 0..9 : Digits[d + 1] = t[Len(t)])

\* a text of the form <digits>.<digit>
OneDecimal(t) ==
  /\ Len(t) >= 3
  /\ t[Len(t) - 1] = "."
  /\ \A i \in (1..Len(t)) \ { Len(t) - 1 } : t[i] \in Range(Digits)
  /\ (Len(t) > 3 => t[1] # "0")

\* the number of tenths a text of the form <digits>.<digit> stands for
Tenths(t) ==
  10 * DigitsValue(SubSeq(t, 1, Len(t) - 2)) + DigitsValue(<< t[Len(t)] >>)

\* C12: while isLoading only the loader is rendered; with isLoading false and
\* no reviews only the empty-state message is rendered and there is no
\* average; with isLoading false and at least one review the summary shows
\* an average with exactly one decimal that is a tenth nearest to the sum of
\* all loaded ratings divided by their number (ratings 5, 4, 3 give "4.0"),
\* the number of reviews, and the noun "review" exactly when that number is 1.
C12_AverageAndCount ==
  /\ isLoading =>
       Render = [ loader |-> TRUE, emptyMessage |-> FALSE, summary |-> << >>,
                  cards |-> << >> ]
  /\ (~isLoading /\ Len(reviews) = 0) =>
       Render = [ loader |-> FALSE, emptyMessage |-> TRUE, summary |-> << >>,
                  cards |-> << >> ]
  /\ (~isLoading /\ Len(reviews) > 0) =>
       /\ ~Render.loader /\ ~Render.emptyMessage
       /\ Len(Render.summary) = 1
       /\ LET shown == Render.summary[1]
              total == SumRatings(reviews)
              count == Len(reviews)
              off == 10 * total - Tenths(shown.average) * count
          IN /\ OneDecimal(shown.average)
             /\ 2 * off <= count
             /\ 2 * off >= -count
             /\ DigitsValue(shown.count) = count
             /\ (shown.noun = "review") <=> (count = 1)
             /\ shown.noun \in { "review", "reviews" }
             /\ ([ i \in 1..count |-> reviews[i].rating ] = << 5, 4, 3 >>
                   => shown.average = << "4", ".", "0" >>)

\* three loaded reviews with ratings 5, 3, 5 are rendered: the mean 4.33...
\* is shown as "4.3" with the plural noun
C12_Witness ==
  /\ ~isLoading
  /\ [ i \in 1..Len(reviews) |-> reviews[i].rating ] = << 5, 3, 5 >>
  /\ Render.summary[1].average = << "4", ".", "3" >>
  /\ Render.summary[1].count = << "3" >>
  /\ Render.summary[1].noun = "reviews"

====
